---- MODULE Spec2Model ----
(***************************************************************************)
(* Model of app.py (Desempenho Comercial): the cached normalisation        *)
(* carregar_dados() of the sales ledger and the per-run filter /           *)
(* aggregation / presentation script that follows it.                      *)
(*                                                                         *)
(* Floats are modelled exactly: a finite float is a reduced fraction n/d,  *)
(* and NaN, +inf and -inf are values of their own with IEEE arithmetic.    *)
(* Text is a sequence of one-character strings.                            *)
(***************************************************************************)
EXTENDS Integers, Sequences, FiniteSets, TLC

\* ------------------------------------------------------------------ bounds

\* Largest number of rows of consolidado.parquet.
MaxRows == 3

\* Longest text cell enumerated exhaustively over Alfabeto.
MaxStr == 3

\* ------------------------------------------------------------------ floats

AbsInt(x) == IF x < 0 THEN -x ELSE x

RECURSIVE GCD(_, _)
GCD(a, b) == IF b = 0 THEN a ELSE GCD(b, a % b)

\* The finite float n/d (d # 0), reduced, with a positive denominator.
Fin(n, d) ==
    LET g == GCD(AbsInt(n), AbsInt(d))
        s == IF d < 0 THEN -1 ELSE 1
    IN  [k |-> "fin", n |-> (s * n) \div g, d |-> (s * d) \div g]

Zero == Fin(0, 1)
NaN == [k |-> "nan", n |-> 0, d |-> 1]
PosInf == [k |-> "inf", n |-> 1, d |-> 1]
NegInf == [k |-> "inf", n |-> -1, d |-> 1]

IsNaN(x) == x.k = "nan"
IsFinite(x) == x.k = "fin"

Neg(x) == IF x.k = "nan" THEN NaN ELSE [x EXCEPT !.n = -x.n]

\* IEEE addition.
Add(x, y) ==
    IF IsNaN(x) \/ IsNaN(y) THEN NaN
    ELSE IF x.k = "inf" /\ y.k = "inf" THEN (IF x.n = y.n THEN x ELSE NaN)
    ELSE IF x.k = "inf" THEN x
    ELSE IF y.k = "inf" THEN y
    ELSE Fin(x.n * y.d + y.n * x.d, x.d * y.d)

Sub(x, y) == Add(x, Neg(y))

\* IEEE division as numpy does it (x / 0 is an infinity or NaN, never an error).
Div(x, y) ==
    IF IsNaN(x) \/ IsNaN(y) THEN NaN
    ELSE IF x.k = "inf" /\ y.k = "inf" THEN NaN
    ELSE IF y.k = "inf" THEN Zero
    ELSE IF y.n = 0 THEN (IF x.n = 0 THEN NaN ELSE IF x.n > 0 THEN PosInf ELSE NegInf)
    ELSE IF x.k = "inf" THEN (IF y.n > 0 THEN x ELSE Neg(x))
    ELSE Fin(x.n * y.d, x.d * y.n)

\* ------------------------------------------------------------------ text

Digitos == {"0", "1", "2", "3", "4", "5", "6", "7", "8", "9"}

DigitVal(c) ==
    CASE c = "0" -> 0 [] c = "1" -> 1 [] c = "2" -> 2 [] c = "3" -> 3 [] c = "4" -> 4
      [] c = "5" -> 5 [] c = "6" -> 6 [] c = "7" -> 7 [] c = "8" -> 8 [] c = "9" -> 9

RECURSIVE Pow10(_)
Pow10(k) == IF k = 0 THEN 1 ELSE 10 * Pow10(k - 1)

\* str.strip(): leading and trailing blanks removed.
RECURSIVE LStrip(_)
LStrip(s) == IF s # <<>> /\ Head(s) = " " THEN LStrip(Tail(s)) ELSE s

RECURSIVE RStrip(_)
RStrip(s) ==
    IF s # <<>> /\ s[Len(s)] = " " THEN RStrip(SubSeq(s, 1, Len(s) - 1)) ELSE s

Strip(s) == RStrip(LStrip(s))

\* str.replace(a, b, ""): every non-overlapping "ab", left to right, removed.
RECURSIVE RemovePair(_, _, _)
RemovePair(s, a, b) ==
    IF s = <<>> THEN <<>>
    ELSE IF Len(s) >= 2 /\ s[1] = a /\ s[2] = b
         THEN RemovePair(SubSeq(s, 3, Len(s)), a, b)
         ELSE <<Head(s)>> \o RemovePair(Tail(s), a, b)

\* re.sub(r"\.(?=\d{3},)", "", v): a dot goes when the three characters after
\* it are digits and the fourth is a comma.
DotIsGrouping(s, i) ==
    /\ s[i] = "."
    /\ i + 4 <= Len(s)
    /\ s[i + 1] \in Digitos /\ s[i + 2] \in Digitos /\ s[i + 3] \in Digitos
    /\ s[i + 4] = ","

RECURSIVE RemoveGroupingFrom(_, _)
RemoveGroupingFrom(s, i) ==
    IF i > Len(s) THEN <<>>
    ELSE (IF DotIsGrouping(s, i) THEN <<>> ELSE <<s[i]>>) \o RemoveGroupingFrom(s, i + 1)

RemoveGrouping(s) == RemoveGroupingFrom(s, 1)

\* str.replace(",", ".")
CommaToDot(s) == [i \in 1..Len(s) |-> IF s[i] = "," THEN "." ELSE s[i]]

RECURSIVE DigitsVal(_)
DigitsVal(s) ==
    IF s = <<>> THEN 0 ELSE 10 * DigitsVal(SubSeq(s, 1, Len(s) - 1)) + DigitVal(s[Len(s)])

DotPositions(s) == {i \in 1..Len(s) : s[i] = "."}

\* An unsigned decimal literal of float(): digits, digits '.', '.' digits,
\* digits '.' digits, or one of the words inf and nan. (The exponent, "_"
\* between digits, "infinity" and upper case need characters that the cells
\* of this model do not hold.)
UnsignedOk(s) ==
    \/ s = <<"i", "n", "f">>
    \/ s = <<"n", "a", "n">>
    \/ /\ s # <<>>
       /\ Cardinality(DotPositions(s)) <= 1
       /\ \A i \in 1..Len(s) : s[i] \in Digitos \cup {"."}
       /\ \E i \in 1..Len(s) : s[i] \in Digitos

UnsignedVal(s) ==
    IF s = <<"i", "n", "f">> THEN PosInf
    ELSE IF s = <<"n", "a", "n">> THEN NaN
    ELSE IF DotPositions(s) = {} THEN Fin(DigitsVal(s), 1)
    ELSE LET p == CHOOSE i \in DotPositions(s) : TRUE
             ip == SubSeq(s, 1, p - 1)
             fp == SubSeq(s, p + 1, Len(s))
         IN  Fin(DigitsVal(ip) * Pow10(Len(fp)) + DigitsVal(fp), Pow10(Len(fp)))

\* float(v) on text: blanks around the literal are ignored, one leading sign is
\* allowed. ok = FALSE is the ValueError.
ParseFloat(v) ==
    LET s == Strip(v)
        signed == s # <<>> /\ s[1] \in {"-", "+"}
        body == IF signed THEN Tail(s) ELSE s
    IN  IF UnsignedOk(body)
        THEN [ok |-> TRUE,
              v |-> IF signed /\ s[1] = "-" THEN Neg(UnsignedVal(body)) ELSE UnsignedVal(body)]
        ELSE [ok |-> FALSE, v |-> Zero]

\* ------------------------------------------------------------------ limpar_moeda

\* A cell of a raw currency column: text (tipo "str"), a number (tipo "num",
\* NaN when the numeric cell is missing) or None (tipo "none").
TextCell(s) == [tipo |-> "str", txt |-> s, num |-> Zero]
NumCell(x) == [tipo |-> "num", txt |-> <<>>, num |-> x]
NoneCell == [tipo |-> "none", txt |-> <<>>, num |-> Zero]

limpar_moeda(valor) ==
    IF valor.tipo = "none" \/ (valor.tipo = "num" /\ IsNaN(valor.num)) THEN Zero
    ELSE IF valor.tipo = "num" THEN valor.num
    ELSE LET v1 == Strip(valor.txt) IN
         IF v1 \in {<<>>, <<"-">>} THEN Zero
         ELSE LET v2 == Strip(RemovePair(RemovePair(v1, "R", "$"), "r", "$"))
                  v3 == RemoveGrouping(v2)
                  v4 == CommaToDot(v3)
                  p == ParseFloat(v4)
              IN  IF p.ok THEN p.v ELSE Zero

\* ------------------------------------------------------------------ dates

\* A raw date is <<year, month, day>> as written in the file; NaT is what
\* pd.to_datetime(errors="coerce") makes of one that is no calendar date.
NaT == <<0, 0, 0>>

DiasNoMes(ano, mes) ==
    IF mes = 2 THEN (IF ano % 4 = 0 /\ (ano % 100 # 0 \/ ano % 400 = 0) THEN 29 ELSE 28)
    ELSE IF mes \in {4, 6, 9, 11} THEN 30 ELSE 31

\* Mutant: a date that cannot be read falls back to the first day of its year.
to_datetime_fallback(d) ==
    IF d[2] \in 1..12 /\ d[3] >= 1 /\ d[3] <= DiasNoMes(d[1], d[2]) THEN d
    ELSE <<d[1], 1, 1>>

to_datetime(d) ==
    IF d[2] \in 1..12 /\ d[3] >= 1 /\ d[3] <= DiasNoMes(d[1], d[2]) THEN d ELSE NaT

\* Series.dt.to_period("M"): <<year, month>>, NaT for NaT.
NaTPeriodo == <<0, 0>>
to_period(d) == IF d = NaT THEN NaTPeriodo ELSE <<d[1], d[2]>>

\* Order of timestamps (never used on NaT).
DateLess(a, b) ==
    \/ a[1] < b[1]
    \/ a[1] = b[1] /\ a[2] < b[2]
    \/ a[1] = b[1] /\ a[2] = b[2] /\ a[3] < b[3]

\* ------------------------------------------------------------------ carregar_dados

SetMin(S) == CHOOSE m \in S : \A x \in S : m <= x
SetMax(S) == CHOOSE m \in S : \A x \in S : m >= x

RECURSIVE Ascending(_)
Ascending(S) == IF S = {} THEN <<>> ELSE <<SetMin(S)>> \o Ascending(S \ {SetMin(S)})

\* df[col].dtype == object: the column holds text or None, not numbers.
DtypeObject(df, col) == \E i \in DOMAIN df : df[i][col].tipo # "num"

\* Lines 63-65: limpar_moeda on the object columns; a numeric column is kept.
ConvertColumn(df, col) ==
    IF DtypeObject(df, col)
    THEN [i \in DOMAIN df |-> [df[i] EXCEPT ![col] = limpar_moeda(df[i][col])]]
    ELSE [i \in DOMAIN df |-> [df[i] EXCEPT ![col] = df[i][col].num]]

ConvertColumns(df) == ConvertColumn(ConvertColumn(df, "Real"), "Meta_Mes")

\* Line 67.
ParseDates(df) == [i \in DOMAIN df |-> [df[i] EXCEPT !.Data = to_datetime(df[i].Data)]]

\* groupby(["Nome_Loja", "ano_mes"]) drops the rows whose key is null
\* (dropna=True): a row with a NaT month belongs to no group.
HasKey(df, i) == to_period(df[i].Data) # NaTPeriodo

SameKey(df, i, j) ==
    /\ df[i].Nome_Loja = df[j].Nome_Loja
    /\ to_period(df[i].Data) = to_period(df[j].Data)

\* The positions of row i's group, in the frame's row order.
GroupOf(df, i) ==
    IF HasKey(df, i) THEN Ascending({j \in DOMAIN df : HasKey(df, j) /\ SameKey(df, i, j)})
    ELSE <<>>

PosIn(seq, i) == CHOOSE k \in 1..Len(seq) : seq[k] = i

\* Lines 71-77: groupby(...).size() merged back with how="left"; a row whose
\* key is in no group gets NaN.
DIAS(df, i) == IF HasKey(df, i) THEN Fin(Len(GroupOf(df, i)), 1) ELSE NaN

\* replace(0, pd.NA): a target of exactly 0 is missing, as NaN already is.
Missing(x) == IsNaN(x) \/ x = Zero

ZeroToNA(x) == IF Missing(x) THEN NaN ELSE x

\* Series.bfill(): a missing value takes the next non-missing value after it.
RECURSIVE bfill(_)
bfill(x) ==
    IF x = <<>> THEN <<>>
    ELSE LET rest == bfill(Tail(x)) IN
         IF IsNaN(Head(x))
         THEN <<IF rest = <<>> THEN NaN ELSE rest[1]>> \o rest
         ELSE <<Head(x)>> \o rest

fillna0(x) == IF IsNaN(x) THEN Zero ELSE x

\* Lines 80-86: the backfill, by group, in the row order the frame has at that
\* point (the file's order: the sort of line 89 comes after it). A row of no
\* group gets NaN from transform, hence 0.
MetaMes(df, i) ==
    IF HasKey(df, i)
    THEN LET g == GroupOf(df, i)
             x == [k \in 1..Len(g) |-> ZeroToNA(df[g[k]].Meta_Mes)]
         IN  fillna0(bfill(x)[PosIn(g, i)])
    ELSE Zero

\* Lines 70-86 on the whole frame; index is the frame's RangeIndex, the row's
\* position in the file, which sort_values and the filters keep as its label.
WithDiasAndMeta(df) ==
    [i \in DOMAIN df |->
        [index |-> i - 1,
         Nome_Loja |-> df[i].Nome_Loja, Produto |-> df[i].Produto,
         Regional |-> df[i].Regional, Coordenador |-> df[i].Coordenador,
         Data |-> df[i].Data, Real |-> df[i].Real,
         Meta_Mes |-> MetaMes(df, i), DIAS |-> DIAS(df, i)]]

LojaOrd(l) == CASE l = "A" -> 1 [] l = "B" -> 2

\* Row a sorts strictly before row b under ["Nome_Loja", "ano_mes", "Data"],
\* nulls last.
RowLess(a, b) ==
    \/ LojaOrd(a.Nome_Loja) < LojaOrd(b.Nome_Loja)
    \/ /\ a.Nome_Loja = b.Nome_Loja
       /\ a.Data # NaT
       /\ (b.Data = NaT \/ DateLess(a.Data, b.Data))

\* Stable insertion of r into a sorted frame.
RECURSIVE Insert(_, _)
Insert(r, s) ==
    IF s = <<>> THEN <<r>>
    ELSE IF RowLess(r, Head(s)) THEN <<r>> \o s
    ELSE <<Head(s)>> \o Insert(r, Tail(s))

\* Line 89: df.sort_values(["Nome_Loja", "ano_mes", "Data"]), stable.
RECURSIVE sort_values(_)
sort_values(df) ==
    IF df = <<>> THEN <<>>
    ELSE Insert(df[Len(df)], sort_values(SubSeq(df, 1, Len(df) - 1)))

\* x.shift(1)
shift1(x) == [k \in 1..Len(x) |-> IF k = 1 THEN NaN ELSE x[k - 1]]

\* Mutant: the first row keeps the NaN of the shift.
variacao_sem_primeira(x) ==
    LET s == shift1(x) IN [k \in 1..Len(x) |-> Sub(x[k], s[k])]

\* Lines 91-94.
variacao(x) ==
    LET s == shift1(x)
        v == [k \in 1..Len(x) |-> Sub(x[k], s[k])]
    IN  [v EXCEPT ![1] = x[1]]

\* Lines 96-99: transform(variacao) by group on the sorted frame.
RealVariacao(df, i) ==
    IF HasKey(df, i)
    THEN LET g == GroupOf(df, i)
             x == [k \in 1..Len(g) |-> df[g[k]].Real]
         IN  variacao(x)[PosIn(g, i)]
    ELSE NaN

\* Line 102.
MetaDia(r) == Div(r.Meta_Mes, r.DIAS)

\* Lines 88-104 on the whole frame.
WithVariacaoAndMetaDia(df) ==
    LET s == sort_values(df) IN
    [i \in DOMAIN s |->
        [index |-> s[i].index,
         Nome_Loja |-> s[i].Nome_Loja, Produto |-> s[i].Produto,
         Regional |-> s[i].Regional, Coordenador |-> s[i].Coordenador,
         Data |-> s[i].Data, Real |-> s[i].Real,
         Meta_Mes |-> s[i].Meta_Mes, DIAS |-> s[i].DIAS,
         Real_Variacao |-> RealVariacao(s, i), Meta_Dia |-> MetaDia(s[i])]]

\* The body of carregar_dados on the file's content.
carregar_dados(arquivo) ==
    WithVariacaoAndMetaDia(WithDiasAndMeta(ParseDates(ConvertColumns(arquivo))))

\* ------------------------------------------------------------------ script

\* Lines 126-152: what each selectbox offers. 0 stands for the year and
\* month of NaT (nan) and for the None an empty selectbox returns.
Column(df, col) == {df[i][col] : i \in DOMAIN df}

Where(df, col, val) ==
    LET Keep(r) == r[col] = val IN SelectSeq(df, Keep)

\* Lines 134, 141 and 159-166: an exact match, or everything for the sentinel.
FilterBy(df, col, sel, todos) == IF sel = todos THEN df ELSE Where(df, col, sel)

Anos(df) == IF df = <<>> THEN {0} ELSE {df[i].Data[1] : i \in DOMAIN df}
Meses(df) == IF df = <<>> THEN {0} ELSE {df[i].Data[2] : i \in DOMAIN df}

\* Lines 168-171: NaT has no year and no month, so it equals no selection.
InWindow(r, ano_sel, mes_sel) ==
    r.Data # NaT /\ r.Data[1] = ano_sel /\ r.Data[2] = mes_sel

\* Lines 157-171.
Filtrar(df, produto_sel, regional_sel, coordenador_sel, loja_sel, ano_sel, mes_sel) ==
    LET f1 == FilterBy(df, "Produto", produto_sel, "Todos")
        f2 == FilterBy(f1, "Regional", regional_sel, "Todas")
        f3 == FilterBy(f2, "Coordenador", coordenador_sel, "Todos")
        f4 == FilterBy(f3, "Nome_Loja", loja_sel, "Todas")
        Keep(r) == InWindow(r, ano_sel, mes_sel)
    IN  SelectSeq(f4, Keep)

\* Series.sum() of a group: NaN is skipped.
RECURSIVE SumSkipNa(_)
SumSkipNa(x) ==
    IF x = <<>> THEN Zero
    ELSE IF IsNaN(Head(x)) THEN SumSkipNa(Tail(x))
    ELSE Add(Head(x), SumSkipNa(Tail(x)))

ColumnSeq(df, col) == [i \in DOMAIN df |-> df[i][col]]

\* The distinct non-null dates of a frame, ascending.
RECURSIVE DatesAscending(_)
DatesAscending(S) ==
    IF S = {} THEN <<>>
    ELSE LET m == CHOOSE d \in S : \A e \in S : e = d \/ DateLess(d, e)
         IN  <<m>> \o DatesAscending(S \ {m})

\* Mutant: the mean of each date instead of the sum.
GroupByDataMean(df) ==
    LET ds == DatesAscending(Column(df, "Data") \ {NaT}) IN
    [i \in DOMAIN ds |->
        LET rows == Where(df, "Data", ds[i]) IN
        [Data |-> ds[i],
         Real_Variacao |-> Div(SumSkipNa(ColumnSeq(rows, "Real_Variacao")), Fin(Len(rows), 1)),
         Meta_Dia |-> Div(SumSkipNa(ColumnSeq(rows, "Meta_Dia")), Fin(Len(rows), 1))]]

\* Lines 180-187: groupby("Data").agg(sum).sort_values("Data").
GroupByData(df) ==
    LET ds == DatesAscending(Column(df, "Data") \ {NaT}) IN
    [i \in DOMAIN ds |->
        [Data |-> ds[i],
         Real_Variacao |-> SumSkipNa(ColumnSeq(Where(df, "Data", ds[i]), "Real_Variacao")),
         Meta_Dia |-> SumSkipNa(ColumnSeq(Where(df, "Data", ds[i]), "Meta_Dia"))]]

\* Series.cumsum(): NaN stays NaN and is left out of the running sum.
RECURSIVE CumsumFrom(_, _)
CumsumFrom(x, acc) ==
    IF x = <<>> THEN <<>>
    ELSE IF IsNaN(Head(x)) THEN <<NaN>> \o CumsumFrom(Tail(x), acc)
    ELSE <<Add(acc, Head(x))>> \o CumsumFrom(Tail(x), Add(acc, Head(x)))

cumsum(x) == CumsumFrom(x, Zero)

\* Lines 180-192.
Acumular(df) ==
    LET g == GroupByData(df)
        ra == cumsum(ColumnSeq(g, "Real_Variacao"))
        ma == cumsum(ColumnSeq(g, "Meta_Dia"))
    IN  [i \in DOMAIN g |->
            [Data |-> g[i].Data,
             Real_Variacao |-> g[i].Real_Variacao,
             Meta_Dia |-> g[i].Meta_Dia,
             REAL_ACUM |-> ra[i],
             META_ACUM |-> ma[i],
             DESVIO_DIA |-> Sub(g[i].Real_Variacao, g[i].Meta_Dia),
             DESVIO_ACUM |-> Sub(ra[i], ma[i])]]

\* round-half-even of the finite n/d, as the format spec ".0f" rounds.
RoundHalfEven(x) ==
    LET q == x.n \div x.d
        r == x.n - q * x.d
    IN  IF 2 * r < x.d THEN q
        ELSE IF 2 * r > x.d THEN q + 1
        ELSE IF q % 2 = 0 THEN q ELSE q + 1

Pad3(m) ==
    IF m < 10 THEN "00" \o ToString(m) ELSE IF m < 100 THEN "0" \o ToString(m) ELSE ToString(m)

\* The "," grouping of the format spec with "," replaced by ".".
RECURSIVE Grouped(_)
Grouped(n) == IF n < 1000 THEN ToString(n) ELSE Grouped(n \div 1000) \o "." \o Pad3(n % 1000)

\* Lines 44-47.
format_large_numbers(value) ==
    IF IsNaN(value) THEN ""
    ELSE IF value.k = "inf" THEN (IF value.n > 0 THEN "R$ inf" ELSE "R$ -inf")
    ELSE LET m == RoundHalfEven(value) IN
         "R$ " \o (IF value.n < 0 THEN "-" ELSE "") \o Grouped(AbsInt(m))

\* Lines 222-230.
Exibir(g) ==
    [i \in DOMAIN g |->
        [Data |-> g[i].Data,
         Producao_Dia |-> format_large_numbers(g[i].Real_Variacao),
         Meta_Dia |-> format_large_numbers(g[i].Meta_Dia),
         Desvio_Dia |-> format_large_numbers(g[i].DESVIO_DIA),
         Producao_Acumulada |-> format_large_numbers(g[i].REAL_ACUM),
         Meta_Acumulada |-> format_large_numbers(g[i].META_ACUM),
         Desvio_Acumulado |-> format_large_numbers(g[i].DESVIO_ACUM)]]

\* ------------------------------------------------------------------ state

VARIABLES
    fonte,       \* the content of consolidado.parquet
    cache,       \* the memo of st.cache_data for carregar_dados
    pc,          \* where the running script is
    rede,        \* the script's normalized table
    df_f,        \* the filtered frame
    df_grouped,  \* the per-date frame with the cumulative columns
    df_exibir,   \* the formatted table
    buffer       \* the spreadsheet written for the download button

vars == <<fonte, cache, pc, rede, df_f, df_grouped, df_exibir, buffer>>

CacheVazio == [cheio |-> FALSE, valor |-> <<>>]

\* ------------------------------------------------------------------ inputs

Lojas == {"A", "B"}
RegionalDe(l) == IF l = "A" THEN "Sul" ELSE "Norte"
CoordenadorDe(l) == IF l = "A" THEN "Ana" ELSE "Bia"

\* Store A's dates: two days of January 2024, one of February 2025, and text
\* that is no date. Store B reports on the two January days.
DatasBrutas(l) ==
    IF l = "A" THEN {<<2024, 1, 1>>, <<2024, 1, 2>>, <<2025, 2, 1>>, <<2024, 13, 1>>}
    ELSE {<<2024, 1, 1>>, <<2024, 1, 2>>}

\* The (Real, Meta Mês) readings of a row.
Leituras == {<<1, 0>>, <<3, 5>>}

LinhaBruta(l, d, real, meta) ==
    [Nome_Loja |-> l, Produto |-> "Consignado", Regional |-> RegionalDe(l),
     Coordenador |-> CoordenadorDe(l), Data |-> d, Real |-> real, Meta_Mes |-> meta]

LinhasDe(l) ==
    {LinhaBruta(l, d, NumCell(Fin(v[1], 1)), NumCell(Fin(v[2], 1))) :
        d \in DatasBrutas(l), v \in Leituras}

LinhasBrutas == UNION {LinhasDe(l) : l \in Lojas}

TabelasBrutas == UNION {[1..k -> LinhasBrutas] : k \in 0..MaxRows}

\* ------------------------------------------------------------------ actions

ScriptVazio ==
    /\ rede' = <<>>
    /\ df_f' = <<>>
    /\ df_grouped' = <<>>
    /\ df_exibir' = <<>>
    /\ buffer' = <<>>

Init ==
    /\ fonte \in TabelasBrutas
    /\ cache = CacheVazio
    /\ pc = "inicio"
    /\ rede = <<>>
    /\ df_f = <<>>
    /\ df_grouped = <<>>
    /\ df_exibir = <<>>
    /\ buffer = <<>>

\* Mutant: no memo, the body runs on every call.
CacheDataSemMemo(memo, arquivo) == [cheio |-> TRUE, valor |-> carregar_dados(arquivo)]

\* Lines 53-55 and 107: the body runs on a cache miss only; a hit returns a
\* copy of the memo.
CacheData(memo, arquivo) ==
    IF memo.cheio THEN memo ELSE [cheio |-> TRUE, valor |-> carregar_dados(arquivo)]

CarregarDados ==
    /\ pc = "inicio"
    /\ cache' = CacheData(cache, fonte)
    /\ rede' = cache'.valor
    /\ pc' = "filtragem"
    /\ UNCHANGED <<fonte, df_f, df_grouped, df_exibir, buffer>>

\* Mutant: the script goes on without st.stop().
AfterFilterSemStop(df) == "acumulados"

\* Lines 173-175: st.warning and st.stop() on an empty frame.
AfterFilter(df) == IF df = <<>> THEN "parado" ELSE "acumulados"

\* Lines 124-175: the sidebar's selections, the filters, and st.stop() when
\* nothing is left.
Filtragem ==
    /\ pc = "filtragem"
    /\ \E produto_sel \in {"Todos"} \cup Column(rede, "Produto"),
          regional_sel \in {"Todas"} \cup Column(rede, "Regional") :
        LET tmp1 == FilterBy(rede, "Regional", regional_sel, "Todas") IN
        \E coordenador_sel \in {"Todos"} \cup Column(tmp1, "Coordenador") :
        LET tmp2 == FilterBy(tmp1, "Coordenador", coordenador_sel, "Todos") IN
        \E loja_sel \in {"Todas"} \cup Column(tmp2, "Nome_Loja"),
           ano_sel \in Anos(rede), mes_sel \in Meses(rede) :
            df_f' = Filtrar(rede, produto_sel, regional_sel, coordenador_sel,
                            loja_sel, ano_sel, mes_sel)
    /\ pc' = AfterFilter(df_f')
    /\ UNCHANGED <<fonte, cache, rede, df_grouped, df_exibir, buffer>>

\* Lines 180-192.
Acumulados ==
    /\ pc = "acumulados"
    /\ df_grouped' = Acumular(df_f)
    /\ pc' = "tabela"
    /\ UNCHANGED <<fonte, cache, rede, df_f, df_exibir, buffer>>

\* Lines 197-243: the chart, the formatted table and its export.
TabelaFinal ==
    /\ pc = "tabela"
    /\ df_exibir' = Exibir(df_grouped)
    /\ buffer' = df_exibir'
    /\ pc' = "fim"
    /\ UNCHANGED <<fonte, cache, rede, df_f, df_grouped>>

\* A widget changes: Streamlit runs the script again from the top.
Rerun ==
    /\ pc \in {"parado", "fim"}
    /\ pc' = "inicio"
    /\ ScriptVazio
    /\ UNCHANGED <<fonte, cache>>

Next == CarregarDados \/ Filtragem \/ Acumulados \/ TabelaFinal \/ Rerun

Spec == Init /\ [][Next]_vars

\* ------------------------------------------------------------------ currency cells

Alfabeto == {"1", "2", ".", ",", "-", " ", "R", "$", "n", "a"}

Textos == UNION {[1..k -> Alfabeto] : k \in 0..MaxStr}

\* "R$ 1.234,56", "1.234.567,89", "r$ 10", "inf", "-inf", "abc", "1.5"
Exemplos ==
    {<<"R", "$", " ", "1", ".", "2", "3", "4", ",", "5", "6">>,
     <<"1", ".", "2", "3", "4", ".", "5", "6", "7", ",", "8", "9">>,
     <<"r", "$", " ", "1", "0">>,
     <<"i", "n", "f">>,
     <<"-", "i", "n", "f">>,
     <<"a", "b", "c">>,
     <<"1", ".", "5">>}

\* A text column's cells (None where the value is missing) and a numeric
\* column's cells (NaN where the value is missing).
CelulasTexto == {TextCell(t) : t \in Textos \cup Exemplos} \cup {NoneCell}
CelulasNumericas == {NumCell(x) : x \in {Fin(10, 1), Fin(-5, 2), Zero, NaN, PosInf}}

\* One ledger row whose Real is any cell and whose Meta Mês is text or a number.
TabelasMoeda ==
    {<<LinhaBruta("A", <<2024, 1, 1>>, real, meta)>> :
        real \in CelulasTexto \cup CelulasNumericas,
        meta \in {TextCell(<<"5">>), NumCell(Fin(5, 1))}}

InitMoeda ==
    /\ fonte \in TabelasMoeda
    /\ cache = CacheVazio
    /\ pc = "inicio"
    /\ rede = <<>>
    /\ df_f = <<>>
    /\ df_grouped = <<>>
    /\ df_exibir = <<>>
    /\ buffer = <<>>

SpecMoeda == InitMoeda /\ [][Next]_vars

\* ------------------------------------------------------------------ session

LinhasSessao ==
    {LinhaBruta("A", <<2024, 1, 1>>, NumCell(Fin(1, 1)), NumCell(Zero)),
     LinhaBruta("A", <<2024, 1, 2>>, NumCell(Fin(3, 1)), NumCell(Fin(5, 1))),
     LinhaBruta("B", <<2024, 1, 1>>, NumCell(Fin(3, 1)), NumCell(Fin(5, 1)))}

TabelasSessao == UNION {[1..k -> LinhasSessao] : k \in 0..MaxRows}

InitSessao ==
    /\ fonte \in TabelasSessao
    /\ cache = CacheVazio
    /\ pc = "inicio"
    /\ rede = <<>>
    /\ df_f = <<>>
    /\ df_grouped = <<>>
    /\ df_exibir = <<>>
    /\ buffer = <<>>

\* consolidado.parquet is replaced between two runs of the script.
AlterarFonte ==
    /\ pc \in {"parado", "fim"}
    /\ fonte' \in TabelasSessao \ {fonte}
    /\ UNCHANGED <<cache, pc, rede, df_f, df_grouped, df_exibir, buffer>>

NextSessao == Next \/ AlterarFonte

SpecSessao == InitSessao /\ [][NextSessao]_vars

\* ------------------------------------------------------------------ claims

\* The file's rows with the currency columns converted and the dates parsed:
\* the raw values that the claims speak of.
Bruto == ParseDates(ConvertColumns(fonte))

Carregado == pc # "inicio"

\* The file positions of the rows of row i's (store, month) group.
GrupoBruto(i) ==
    {j \in DOMAIN Bruto :
        /\ Bruto[i].Data # NaT /\ Bruto[j].Data # NaT
        /\ Bruto[j].Nome_Loja = Bruto[i].Nome_Loja
        /\ Bruto[j].Data[1] = Bruto[i].Data[1]
        /\ Bruto[j].Data[2] = Bruto[i].Data[2]}

NonZero(x) == x # Zero /\ ~IsNaN(x)

\* The targets that are first non-zero in date order in row i's group.
PrimeirasMetas(i) ==
    {Bruto[j].Meta_Mes : j \in
        {j \in GrupoBruto(i) :
            /\ NonZero(Bruto[j].Meta_Mes)
            /\ \A k \in GrupoBruto(i) :
                DateLess(Bruto[k].Data, Bruto[j].Data) => ~NonZero(Bruto[k].Meta_Mes)}}

\* C1: after carregar_dados every row of a (store, month) group carries the
\* same Meta Mês: the first non-zero target of the group in date order, or 0
\* when the group has none.
C1_MetaConstanteNoGrupo ==
    Carregado =>
        \A a \in DOMAIN rede :
            LET i == rede[a].index + 1 IN
            Bruto[i].Data # NaT =>
                /\ \A b \in DOMAIN rede :
                        rede[b].index + 1 \in GrupoBruto(i) => rede[b].Meta_Mes = rede[a].Meta_Mes
                /\ IF PrimeirasMetas(i) = {} THEN rede[a].Meta_Mes = Zero
                   ELSE rede[a].Meta_Mes \in PrimeirasMetas(i)

\* The rows of row i's group with a non-zero target at a later date.
MetasDepois(i) ==
    {j \in GrupoBruto(i) : DateLess(Bruto[i].Data, Bruto[j].Data) /\ NonZero(Bruto[j].Meta_Mes)}

\* The values the claim allows for a zero-target row i: the non-zero targets at
\* the nearest later date that has one, 0 when no later date has one, and (a
\* date order leaves rows of one date in either order) the non-zero targets of
\* the other rows of i's own date.
MetasAdmitidas(i) ==
    LET later == MetasDepois(i)
        nearest == {j \in later : \A k \in later : ~DateLess(Bruto[k].Data, Bruto[j].Data)}
        same == {j \in GrupoBruto(i) :
                    j # i /\ Bruto[j].Data = Bruto[i].Data /\ NonZero(Bruto[j].Meta_Mes)}
    IN  {Bruto[j].Meta_Mes : j \in nearest \cup same}
            \cup (IF later = {} THEN {Zero} ELSE {})

\* C2: whatever the row order of the file, a row whose Meta Mês is exactly 0
\* takes the next non-zero Meta Mês at a later date of its group, and 0 when
\* the group has none at a later date.
C2_BackfillEmOrdemDeData ==
    Carregado =>
        \A a \in DOMAIN rede :
            LET i == rede[a].index + 1 IN
            (Bruto[i].Data # NaT /\ Bruto[i].Meta_Mes = Zero) =>
                rede[a].Meta_Mes \in MetasAdmitidas(i)

\* The rows of rede before row a in a's (store, month) group.
Anteriores(a) ==
    {b \in DOMAIN rede :
        /\ b < a
        /\ rede[b].Data # NaT
        /\ rede[b].Nome_Loja = rede[a].Nome_Loja
        /\ rede[b].Data[1] = rede[a].Data[1]
        /\ rede[b].Data[2] = rede[a].Data[2]}

\* C3: rede holds each file row once with its Real; within a (store, month)
\* group the rows stand in date order, the first row's Real_Variacao is its
\* Real and a later row's is its Real minus the Real of the row just before
\* it in the group, negative differences included.
C3_VariacaoPrimeiraDiferenca ==
    Carregado =>
        LET bruto == Bruto IN
        /\ Len(rede) = Len(fonte)
        /\ {rede[a].index + 1 : a \in DOMAIN rede} = DOMAIN fonte
        /\ \A a \in DOMAIN rede :
            LET ant == Anteriores(a) IN
            /\ rede[a].Real = bruto[rede[a].index + 1].Real
            /\ rede[a].Data = bruto[rede[a].index + 1].Data
            /\ rede[a].Data # NaT =>
                /\ \A b \in ant : ~DateLess(rede[a].Data, rede[b].Data)
                /\ rede[a].Real_Variacao =
                       IF ant = {} THEN rede[a].Real
                       ELSE Fin(rede[a].Real.n - rede[SetMax(ant)].Real.n, 1)

\* A group of three rows whose file order is not its date order, with a
\* negative difference in it.
C3_Witness ==
    /\ Carregado
    /\ \E a \in DOMAIN rede :
        /\ rede[a].Data # NaT
        /\ Cardinality(Anteriores(a)) = 2
        /\ rede[a].index < rede[SetMax(Anteriores(a))].index
        /\ \E b \in Anteriores(a) \cup {a} : rede[b].Real_Variacao.n < 0

\* C4: DIAS of a row is the number of distinct days the file holds for the
\* row's (store, month) group, also when the store has several rows on one
\* date.
C4_DiasDistintos ==
    Carregado =>
        \A a \in DOMAIN rede :
            LET i == rede[a].index + 1 IN
            Bruto[i].Data # NaT =>
                rede[a].DIAS = Fin(Cardinality({Bruto[j].Data : j \in GrupoBruto(i)}), 1)

\* C5: DIAS of every row of rede, the rows with an unparsable date included,
\* is a number that is at least 1.
C5_DiasPeloMenosUm ==
    Carregado =>
        \A a \in DOMAIN rede : IsFinite(rede[a].DIAS) /\ rede[a].DIAS.n >= rede[a].DIAS.d

\* The exact sum of the entries of x at the positions S.
RECURSIVE SumAt(_, _)
SumAt(x, S) ==
    IF S = {} THEN Zero
    ELSE LET i == CHOOSE i \in S : TRUE IN Add(x[i], SumAt(x, S \ {i}))

\* C6: df_grouped has one row per distinct date of the non-empty df_f, in
\* ascending date order; its Real_Variacao and Meta Dia are the sums over the
\* rows of df_f of that date, REAL_ACUM and META_ACUM the running sums over
\* the dates so far, DESVIO_DIA and DESVIO_ACUM the differences.
C6_AgregadoPorData ==
    pc \in {"tabela", "fim"} =>
        LET g == df_grouped
            rv == ColumnSeq(df_f, "Real_Variacao")
            md == ColumnSeq(df_f, "Meta_Dia")
            On(d) == {i \in DOMAIN df_f : df_f[i].Data = d}
        IN  /\ {g[i].Data : i \in DOMAIN g} = {df_f[i].Data : i \in DOMAIN df_f}
            /\ \A i, j \in DOMAIN g : i < j => DateLess(g[i].Data, g[j].Data)
            /\ \A i \in DOMAIN g :
                /\ g[i].Real_Variacao = SumAt(rv, On(g[i].Data))
                /\ g[i].Meta_Dia = SumAt(md, On(g[i].Data))
                /\ g[i].REAL_ACUM = SumAt(ColumnSeq(g, "Real_Variacao"), 1..i)
                /\ g[i].META_ACUM = SumAt(ColumnSeq(g, "Meta_Dia"), 1..i)
                /\ g[i].DESVIO_DIA = Sub(g[i].Real_Variacao, g[i].Meta_Dia)
                /\ g[i].DESVIO_ACUM = Sub(g[i].REAL_ACUM, g[i].META_ACUM)
                /\ IsFinite(g[i].DESVIO_ACUM)

\* Two dates, one of them with rows of two stores, and a daily target that is
\* no whole number.
C6_Witness ==
    /\ pc = "fim"
    /\ Len(df_grouped) = 2
    /\ \E i, j \in DOMAIN df_f :
        i # j /\ df_f[i].Data = df_f[j].Data /\ df_f[i].Nome_Loja # df_f[j].Nome_Loja
    /\ \E i \in DOMAIN df_grouped : df_grouped[i].Meta_Dia.d > 1

\* C7: a run whose filters leave no row stops in the "no data" state: it has
\* aggregated, formatted and exported nothing, and its only next step is the
\* next run; the aggregation and the steps after it run on a non-empty frame
\* only.
C7_SemDadosPara ==
    /\ [](pc = "parado" =>
            df_f = <<>> /\ df_grouped = <<>> /\ df_exibir = <<>> /\ buffer = <<>>)
    /\ [](pc \in {"acumulados", "tabela", "fim"} => df_f # <<>>)
    /\ [][pc = "parado" =>
            pc' = "inicio" /\ df_grouped' = <<>> /\ df_exibir' = <<>> /\ buffer' = <<>>]_vars

\* The run stopped on a table that has rows: the selection left none.
C7_Witness == pc = "parado" /\ rede # <<>>

\* A raw date that is a calendar date.
DataLegivel(d) == d[2] \in 1..12 /\ d[3] \in 1..DiasNoMes(d[1], d[2])

SemIndex(df) == [i \in DOMAIN df |-> [df[i] EXCEPT !.index = 0]]

LinhasLegiveis(df) ==
    LET Keep(r) == DataLegivel(fonte[r.index + 1].Data) IN SelectSeq(df, Keep)

FonteLegivel ==
    LET Keep(r) == DataLegivel(r.Data) IN SelectSeq(fonte, Keep)

\* C9: the rows without a readable date take part in nothing that is keyed by
\* date: the rows with a readable date of the table that carregar_dados
\* returns are what it makes of the file without the unreadable rows (same
\* DIAS, Meta Mês, Real_Variacao and Meta Dia), and no selection lets an
\* unreadable row into df_f or a null date into df_grouped.
C9_DataIlegivelForaDosGrupos ==
    Carregado =>
        /\ pc = "filtragem" =>
                SemIndex(LinhasLegiveis(rede)) = SemIndex(carregar_dados(FonteLegivel))
        /\ \A i \in DOMAIN df_f : DataLegivel(fonte[df_f[i].index + 1].Data)
        /\ \A i \in DOMAIN df_grouped :
            /\ df_grouped[i].Data # NaT
            /\ df_grouped[i].Data \in {fonte[j].Data : j \in DOMAIN fonte}

\* A finished run over a store that has a row without a readable date next to
\* the rows that were aggregated.
C9_Witness ==
    /\ pc = "fim"
    /\ \E a \in DOMAIN rede, i \in DOMAIN df_f :
        /\ ~DataLegivel(fonte[rede[a].index + 1].Data)
        /\ rede[a].Nome_Loja = df_f[i].Nome_Loja
        /\ Len(LinhasLegiveis(rede)) >= 2

\* A cell that holds no amount: None, a missing number, or text without a digit.
SemValor(c) ==
    \/ c.tipo = "none"
    \/ c.tipo = "num" /\ IsNaN(c.num)
    \/ c.tipo = "str" /\ \A i \in DOMAIN c.txt : c.txt[i] \notin Digitos

\* C8: after the conversion every value of a currency column is a finite
\* number, and a missing, blank or unparsable value has become 0, whether the
\* column came as text or as numbers.
C8_MoedaFinita ==
    Carregado =>
        \A a \in DOMAIN rede :
            LET r == fonte[rede[a].index + 1] IN
            /\ IsFinite(rede[a].Real)
            /\ IsFinite(rede[a].Meta_Mes)
            /\ SemValor(r.Real) => rede[a].Real = Zero

\* C10: once filled, the memo of carregar_dados never changes, whatever
\* happens to the file and however often the script runs again; the table of
\* every run is the memo, and no step of a run changes it.
C10_RedeImutavel ==
    /\ [](Carregado => cache.cheio /\ rede = cache.valor)
    /\ [][cache.cheio => cache' = cache]_vars
    /\ [][(Carregado /\ pc' # "inicio") => rede' = rede]_vars

\* A later run, past its filters, on the memo of a file that has since been
\* replaced by one that normalizes differently (the file changes between
\* runs only, so this run started after the change).
C10_Witness ==
    /\ pc = "acumulados"
    /\ rede # carregar_dados(fonte)

====
